---- MODULE Spec2Model ----
(***************************************************************************)
(* Pupil-diameter pipeline of himyss/analyse_test: FilteredData (the       *)
(* Sample Table and its derived-field recompute), RawDataFilter (the       *)
(* filter chain) and CalibrationProcessor (the phase metric extractor).    *)
(*                                                                         *)
(* src/ holds two revisions of FilteredData and RawDataFilter: the working *)
(* files (src/filtered_data.py, src/raw_data_filter.py) and the snapshot   *)
(* under src/.ipynb_checkpoints/.  The variable rev says which revision    *)
(* the behaviour runs; it never changes.                                   *)
(*                                                                         *)
(* Units.  Time is counted in ticks of 0.1 s, so the +-0.5 s window of the  *)
(* standard deviation is 5 ticks and the +-0.3 s smoothing window 3 ticks.  *)
(* avg_pupildiameter is held in half units (left + right), which keeps     *)
(* the division by two exact; std_pupildiameter is held in 1/StdScale of   *)
(* a half unit, rounded down; avg_pupildiameter_smooth is held in          *)
(* 1/SmoothDen of a half unit, which keeps every window mean exact.        *)
(***************************************************************************)
EXTENDS Integers, Sequences, FiniteSets, TLC

\* Largest number of rows of the raw record table.
MaxRows == 3
\* Fixed-point resolution of std_pupildiameter.
StdScale == 100

\* np.nan: the undefined value of a float column.
NaN == -9999
\* Python's None (FilteredData._start_timestamp with no valid row).
None == -9998

\* time_window of the standard deviation, in ticks (0.5 s).
StdWindow == 5
\* time_window_smooth, in ticks (0.3 s).
SmoothWindow == 3

Revisions == {"working", "checkpoint"}

\* Inputs: the timestamps, and the (type, left, right) readings a raw row
\* may carry.  A reading of NaN is a missing value.
TimeStamps == {0, 3, 6}
RowKinds ==
  { <<"gaze", 1, 1>>, <<"gaze", 1, 3>>, <<"other", 3, 1>>, <<"gaze", NaN, 1>> }

VARIABLES
  rev,              \* which revision of FilteredData / RawDataFilter runs
  raw,              \* the caller's raw record table (RawData._raw_data)
  data,             \* FilteredData._data: the sequence of rows
  columns,          \* the column names of FilteredData._data
  start_timestamp,  \* FilteredData._start_timestamp
  now,              \* the clock time.time() reads
  pc,               \* "new", "constructed" (no pass yet) or "filtered"
  timings,          \* the content of the phase-timings JSON file
  result,           \* the last CalibrationProcessor call and what it returned or raised
  disk              \* the JSON files CalibrationData.save has written, by path

vars == <<rev, raw, data, columns, start_timestamp, now, pc, timings, result, disk>>

----------------------------------------------------------------------------
\* Float arithmetic with NaN.

IsNaN(x) == x = NaN

Sub(a, b) == IF IsNaN(a) \/ IsNaN(b) THEN NaN ELSE a - b
Add(a, b) == IF IsNaN(a) \/ IsNaN(b) THEN NaN ELSE a + b
Mul(a, b) == IF IsNaN(a) \/ IsNaN(b) THEN NaN ELSE a * b
Abs(a) == IF IsNaN(a) THEN NaN ELSE IF a < 0 THEN 0 - a ELSE a
\* Every comparison with NaN is false.
Lt(a, b) == ~IsNaN(a) /\ ~IsNaN(b) /\ a < b
Le(a, b) == ~IsNaN(a) /\ ~IsNaN(b) /\ a <= b
Gt(a, b) == Lt(b, a)
Ge(a, b) == Le(b, a)

RECURSIVE SumSeq(_)
SumSeq(s) == IF s = <<>> THEN 0 ELSE Head(s) + SumSeq(Tail(s))

RECURSIVE SumSqSeq(_)
SumSqSeq(s) == IF s = <<>> THEN 0 ELSE Head(s) * Head(s) + SumSqSeq(Tail(s))

HasNaN(s) == \E i \in 1..Len(s) : IsNaN(s[i])

\* Sub-sequence of s at the positions where keep holds, in order.
RECURSIVE SelectIdx(_, _, _)
SelectIdx(s, keep, i) ==
  IF i > Len(s) THEN <<>>
  ELSE (IF keep[i] THEN <<s[i]>> ELSE <<>>) \o SelectIdx(s, keep, i + 1)

\* floor(sqrt(x)) by bisection on lo..hi.
RECURSIVE ISqrtIn(_, _, _)
ISqrtIn(x, lo, hi) ==
  IF lo >= hi THEN lo
  ELSE LET mid == (lo + hi + 1) \div 2
       IN  IF mid * mid <= x THEN ISqrtIn(x, mid, hi) ELSE ISqrtIn(x, lo, mid - 1)

ISqrt(x) == ISqrtIn(x, 0, x)

RECURSIVE Gcd(_, _)
Gcd(a, b) == IF b = 0 THEN a ELSE Gcd(b, a % b)

RECURSIVE LcmUpTo(_)
LcmUpTo(n) == IF n <= 1 THEN 1 ELSE LET l == LcmUpTo(n - 1) IN (l * n) \div Gcd(l, n)

\* Common denominator of every mean over 1..MaxRows values.
SmoothDen == LcmUpTo(MaxRows)

----------------------------------------------------------------------------
\* The raw record table.

RawRow(i, t, k, v) ==
  [id |-> i, timestamp |-> t, type |-> k[1], eyeleft |-> k[2], eyeright |-> k[3],
   is_valid |-> v]

RawColumns == {"timestamp", "type", "eyeleft.pupildiameter", "eyeright.pupildiameter"}

\* Timestamps of a raw table of n rows, in the order the recorder wrote
\* them: they do not decrease, and at most two rows share one.
TimeLines(n) ==
  { f \in [1..n -> TimeStamps] :
      /\ \A i \in 1..(n - 1) : f[i] <= f[i + 1]
      /\ \A i \in 1..(n - 2) : f[i] < f[i + 2] }

\* Raw tables of n rows.  A raw table has no is_valid column (has_is_valid =
\* FALSE, the field is then a placeholder).
RawTables(n, lines, kinds) ==
  { [has_is_valid |-> FALSE,
     rows |-> [i \in 1..n |-> RawRow(i, ts[i], ks[i], TRUE)]] :
      ts \in lines, ks \in [1..n -> kinds] }

----------------------------------------------------------------------------
\* np.std(window_pupils, ddof=1) and np.mean.

\* src/.ipynb_checkpoints/filtered_data-checkpoint.py:80
SampleStd(vals) ==
  IF HasNaN(vals) THEN NaN
  ELSE LET n == Len(vals)
           num == n * SumSqSeq(vals) - SumSeq(vals) * SumSeq(vals)
       IN  ISqrt((StdScale * StdScale * num) \div (n * (n - 1)))

\* np.mean of half-unit values, in 1/SmoothDen of a half unit.
Mean(vals) ==
  IF HasNaN(vals) THEN NaN ELSE (SumSeq(vals) * SmoothDen) \div Len(vals)

Column(t, f) == [i \in 1..Len(t) |-> t[i][f]]
ValidMask(t) == [i \in 1..Len(t) |-> t[i].is_valid]
ValidRows(t) == SelectIdx(t, ValidMask(t), 1)

RECURSIVE MaxSeq(_)
MaxSeq(s) ==
  IF Len(s) = 1 THEN Head(s)
  ELSE LET m == MaxSeq(Tail(s)) IN IF Head(s) >= m THEN Head(s) ELSE m

\* valid_data['timestamp'].min()
RECURSIVE MinSeq(_)
MinSeq(s) ==
  IF Len(s) = 1 THEN Head(s)
  ELSE LET m == MinSeq(Tail(s)) IN IF Head(s) <= m THEN Head(s) ELSE m

----------------------------------------------------------------------------
\* FilteredData._prepare_data, working revision (src/filtered_data.py).

\* if 'is_valid' not in self._data.columns: self._data['is_valid'] = True
ensure_is_valid(t, cols) ==
  IF "is_valid" \in cols THEN t
  ELSE [i \in 1..Len(t) |-> [t[i] EXCEPT !.is_valid = TRUE]]

\* Every calculated field is set to NaN, present or not.
reset_calculated_fields_working(t) ==
  [i \in 1..Len(t) |-> [t[i] EXCEPT !.relative_timestamp = NaN]]

prepare_data_working(t0, cols) ==
  LET t     == reset_calculated_fields_working(ensure_is_valid(t0, cols))
      valid == ValidRows(t)
  IN  IF valid # <<>>
      THEN LET start == MinSeq(Column(valid, "timestamp"))
           IN  { [data  |-> [i \in 1..Len(t) |->
                              IF t[i].is_valid
                              THEN [t[i] EXCEPT !.relative_timestamp =
                                                   Sub(t[i].timestamp, start)]
                              ELSE t[i]],
                  start |-> start] }
      ELSE { [data |-> t, start |-> None] }

columns_working(cols) ==
  cols \cup {"is_valid", "relative_timestamp", "timestamp_readable"}

----------------------------------------------------------------------------
\* FilteredData._prepare_data, checkpoint revision
\* (src/.ipynb_checkpoints/filtered_data-checkpoint.py).

calculated_fields ==
  {"relative_timestamp", "avg_pupildiameter", "std_pupildiameter",
   "avg_pupildiameter_smooth"}

\* A calculated field is created with NaN only when the column is absent;
\* a column that exists keeps its values.
reset_calculated_fields_checkpoint(t, cols) ==
  [i \in 1..Len(t) |->
     [f \in DOMAIN t[i] |->
        IF f \in calculated_fields /\ f \notin cols THEN NaN ELSE t[i][f]]]

\* mask = (timestamps >= current_time - w) & (timestamps <= current_time + w)
WindowMask(timestamps, current_time, w) ==
  [j \in 1..Len(timestamps) |->
     /\ Ge(timestamps[j], Sub(current_time, w))
     /\ Le(timestamps[j], Add(current_time, w))]

\* Lines 67-89: the windowed standard deviation, read from valid_data, the
\* copy of the valid rows taken at line 43 (before relative_timestamp and
\* avg_pupildiameter are written at lines 47 and 59).
std_pupil_list(valid_data) ==
  LET timestamps == Column(valid_data, "relative_timestamp")
      pupils     == Column(valid_data, "avg_pupildiameter")
  IN  [i \in 1..Len(valid_data) |->
         LET window_pupils ==
               SelectIdx(pupils, WindowMask(timestamps, timestamps[i], StdWindow), 1)
         IN  IF Len(window_pupils) >= 2 THEN SampleStd(window_pupils) ELSE NaN]

\* Position of row i among the valid rows of t (i itself valid).
ValidRank(t, i) == Cardinality({j \in 1..i : t[j].is_valid})

\* self._data.sort_values('timestamp').reset_index(drop=True): the default
\* sort is not stable, so rows of equal timestamp come out in any order.
sort_values(t) ==
  { [i \in 1..Len(t) |-> t[p[i]]] : p \in
      { q \in Permutations(1..Len(t)) :
          \A i \in 1..(Len(t) - 1) : t[q[i]].timestamp <= t[q[i + 1]].timestamp } }

\* _smooth_avg_pupildiameter on the sorted table s (lines 113-134).
smooth_sorted(s, time_window_smooth) ==
  LET valid      == ValidRows(s)
      timestamps == Column(valid, "timestamp")
      values     == Column(valid, "avg_pupildiameter")
  IN  [i \in 1..Len(s) |->
         [s[i] EXCEPT !.avg_pupildiameter_smooth =
            IF s[i].is_valid
            THEN LET mask == WindowMask(timestamps, s[i].timestamp, time_window_smooth)
                 IN  IF \E j \in DOMAIN mask : mask[j]
                     THEN Mean(SelectIdx(values, mask, 1))
                     ELSE Mul(values[ValidRank(s, i)], SmoothDen)
            ELSE NaN]]

smooth_avg_pupildiameter(t, time_window_smooth) ==
  { smooth_sorted(s, time_window_smooth) : s \in sort_values(t) }

prepare_data_checkpoint(t0, cols) ==
  LET t          == reset_calculated_fields_checkpoint(ensure_is_valid(t0, cols), cols)
      valid_data == ValidRows(t)
      start      == IF valid_data # <<>>
                    THEN MinSeq(Column(valid_data, "timestamp")) ELSE None
      stds       == std_pupil_list(valid_data)
      t1 == [i \in 1..Len(t) |->
               [t[i] EXCEPT
                  !.relative_timestamp =
                     IF valid_data # <<>> /\ t[i].is_valid
                     THEN Sub(t[i].timestamp, start) ELSE @,
                  !.avg_pupildiameter = Add(t[i].eyeleft, t[i].eyeright),
                  !.std_pupildiameter =
                     IF valid_data # <<>>
                     THEN (IF t[i].is_valid THEN stds[ValidRank(t, i)] ELSE @)
                     ELSE NaN]]
  IN  { [data |-> d, start |-> start] :
          d \in smooth_avg_pupildiameter(t1, SmoothWindow) }

columns_checkpoint(cols) ==
  cols \cup {"is_valid", "timestamp_readable"} \cup calculated_fields

prepare_data(r, t, cols) ==
  IF r = "working" THEN prepare_data_working(t, cols)
  ELSE prepare_data_checkpoint(t, cols)

columns_after(r, cols) ==
  IF r = "working" THEN columns_working(cols) ELSE columns_checkpoint(cols)

----------------------------------------------------------------------------
\* RawDataFilter: each pass computes a mask over df = filtered_data.get_data()
\* and sets is_valid to False on it (df.loc[mask, 'is_valid'] = False).

\* df['is_valid'] = ~mask: the whole column rewritten.
Invalidate_overwrite(df, mask) ==
  [i \in 1..Len(df) |-> [df[i] EXCEPT !.is_valid = ~mask[i]]]

Invalidate(df, mask) ==
  [i \in 1..Len(df) |-> IF mask[i] THEN [df[i] EXCEPT !.is_valid = FALSE] ELSE df[i]]

\* The difference taken over the valid rows only (df[df['is_valid']][f].diff()).
Diff_valid(df, f, i) ==
  LET prev == { j \in 1..(i - 1) : df[j].is_valid }
  IN  IF prev = {} THEN NaN
      ELSE Sub(df[i][f], df[CHOOSE j \in prev : \A k \in prev : k <= j][f])

\* Series.diff(): NaN on the first row.
Diff(df, f, i) == IF i = 1 THEN NaN ELSE Sub(df[i][f], df[i - 1][f])

filter_only_gaze(df) ==
  Invalidate(df, [i \in 1..Len(df) |-> df[i].type # "gaze"])

filter_invalid_pupils(df, min_size, max_size) ==
  Invalidate(df, [i \in 1..Len(df) |->
    \/ Lt(df[i].eyeleft, min_size)  \/ Gt(df[i].eyeleft, max_size)
    \/ Lt(df[i].eyeright, min_size) \/ Gt(df[i].eyeright, max_size)])

filter_missing_data(df) ==
  Invalidate(df, [i \in 1..Len(df) |->
    IsNaN(df[i].eyeleft) \/ IsNaN(df[i].eyeright) \/ IsNaN(df[i].timestamp)])

\* The bounds compared with relative_timestamp in place of timestamp.
filter_by_timestamp_relative(df, min_timestamp, current_time) ==
  Invalidate(df, [i \in 1..Len(df) |->
    \/ Lt(df[i].relative_timestamp, min_timestamp)
    \/ Gt(df[i].relative_timestamp, current_time)])

filter_by_timestamp(df, min_timestamp, current_time) ==
  Invalidate(df, [i \in 1..Len(df) |->
    Lt(df[i].timestamp, min_timestamp) \/ Gt(df[i].timestamp, current_time)])

\* src/raw_data_filter.py:73-78: the row that follows a short interval.
spacing_mask(df, min_interval) ==
  [i \in 1..Len(df) |-> Lt(Diff(df, "timestamp", i), min_interval)]

filter_unrealistic_event_spacing_working(df, min_interval) ==
  Invalidate(df, spacing_mask(df, min_interval))

\* raw_data_filter-checkpoint.py:75-91: bad_indexes and bad_indexes - 1.
filter_unrealistic_event_spacing_checkpoint(df, min_interval) ==
  LET bad == spacing_mask(df, min_interval)
  IN  Invalidate(df, [i \in 1..Len(df) |->
        bad[i] \/ (i < Len(df) /\ bad[i + 1])])

filter_unrealistic_event_spacing(r, df, min_interval) ==
  IF r = "working" THEN filter_unrealistic_event_spacing_working(df, min_interval)
  ELSE filter_unrealistic_event_spacing_checkpoint(df, min_interval)

\* stable = stable_left & stable_right
stable(df, tolerance) ==
  [i \in 1..Len(df) |->
     /\ Lt(Abs(Diff(df, "eyeleft", i)), tolerance)
     /\ Lt(Abs(Diff(df, "eyeright", i)), tolerance)]

\* stable.groupby((stable != stable.shift()).cumsum()).transform('size'):
\* the length of the run of equal values of st that holds position i.
stable_streak(st, i) ==
  LET lo == CHOOSE a \in 1..i :
              /\ \A j \in a..i : st[j] = st[i]
              /\ (a = 1 \/ st[a - 1] # st[i])
      hi == CHOOSE b \in i..Len(st) :
              /\ \A j \in i..b : st[j] = st[i]
              /\ (b = Len(st) \/ st[b + 1] # st[i])
  IN  hi - lo + 1

filter_constant_pupil(df, max_static_steps, tolerance) ==
  LET st == stable(df, tolerance)
  IN  Invalidate(df, [i \in 1..Len(df) |->
        st[i] /\ stable_streak(st, i) >= max_static_steps])

filter_async_pupil_size(df, tolerance) ==
  Invalidate(df, [i \in 1..Len(df) |->
    LET left_diff  == Diff(df, "eyeleft", i)
        right_diff == Diff(df, "eyeright", i)
    IN  /\ Lt(Mul(left_diff, right_diff), 0)
        /\ Gt(Abs(left_diff), tolerance)
        /\ Gt(Abs(right_diff), tolerance)])

\* Positions in df of its valid rows, in order (valid_data.index).
ValidIndex(df) == SelectIdx([i \in 1..Len(df) |-> i], ValidMask(df), 1)

\* raw_data_filter-checkpoint.py:152-161: pair (i-1, i) of valid_data is too
\* fast.  speed = delta_pupil / delta_time > max_speed, with delta_time > 0,
\* is delta_pupil > max_speed * delta_time.
too_fast(valid_data, i, max_speed) ==
  LET delta_pupil == Abs(Sub(valid_data[i].avg_pupildiameter,
                             valid_data[i - 1].avg_pupildiameter))
      delta_time  == Sub(valid_data[i].relative_timestamp,
                         valid_data[i - 1].relative_timestamp)
  IN  Gt(delta_time, 0) /\ Gt(delta_pupil, Mul(max_speed, delta_time))

\* A variant that marks only the later row of a too-fast pair.
filter_pupil_speed_later_row(df, max_speed) ==
  LET valid_data == ValidRows(df)
      index      == ValidIndex(df)
      hit == { index[i] : i \in { k \in 2..Len(valid_data) :
                                    too_fast(valid_data, k, max_speed) } }
  IN  Invalidate(df, [i \in 1..Len(df) |-> i \in hit])

filter_pupil_speed(df, max_speed) ==
  LET valid_data == ValidRows(df)
      index      == ValidIndex(df)
      hit == { index[i] : i \in { k \in 2..Len(valid_data) :
                                    too_fast(valid_data, k, max_speed) } }
             \cup
             { index[i - 1] : i \in { k \in 2..Len(valid_data) :
                                    too_fast(valid_data, k, max_speed) } }
  IN  Invalidate(df, [i \in 1..Len(df) |-> i \in hit])

\* A variant that never flags a row whose own value is NaN.
is_outlier_defined_only(local_stds, x, sigma_threshold) ==
  LET vals == SelectIdx(local_stds, [j \in 1..Len(local_stds) |-> ~IsNaN(local_stds[j])], 1)
      k    == Len(vals)
      S    == SumSeq(vals)
      Q    == SumSqSeq(vals)
  IN  /\ ~IsNaN(x)
      /\ (k * x - S) * (k * x - S) > sigma_threshold * sigma_threshold * (k * Q - S * S)

\* not (lower_bound <= x <= upper_bound) with lower/upper = nanmean -+
\* sigma_threshold * nanstd of local_stds.  With k values that are not NaN, of
\* sum S and sum of squares Q: mean = S / k, nanstd^2 = (k*Q - S*S) / k^2, so
\* the value is inside iff (k*x - S)^2 <= sigma_threshold^2 * (k*Q - S*S).
\* A NaN value, or NaN bounds (no value that is not NaN), is outside.
is_outlier(local_stds, x, sigma_threshold) ==
  LET vals == SelectIdx(local_stds, [j \in 1..Len(local_stds) |-> ~IsNaN(local_stds[j])], 1)
      k    == Len(vals)
      S    == SumSeq(vals)
      Q    == SumSqSeq(vals)
  IN  \/ IsNaN(x)
      \/ k = 0
      \/ (k * x - S) * (k * x - S) > sigma_threshold * sigma_threshold * (k * Q - S * S)

\* A variant that judges a row even when it is alone in its window.
filter_by_std_outliers_any_window(df, time_window, sigma_threshold) ==
  LET valid_data == ValidRows(df)
      index      == ValidIndex(df)
      timestamps == Column(valid_data, "relative_timestamp")
      stds       == Column(valid_data, "std_pupildiameter")
      outlier_mask ==
        [i \in 1..Len(valid_data) |->
           LET local_stds ==
                 SelectIdx(stds, WindowMask(timestamps, timestamps[i], time_window), 1)
           IN  is_outlier(local_stds, stds[i], sigma_threshold)]
      hit == { index[i] : i \in { k \in 1..Len(valid_data) : outlier_mask[k] } }
  IN  Invalidate(df, [i \in 1..Len(df) |-> i \in hit])

filter_by_std_outliers(df, time_window, sigma_threshold) ==
  LET valid_data == ValidRows(df)
      index      == ValidIndex(df)
      timestamps == Column(valid_data, "relative_timestamp")
      stds       == Column(valid_data, "std_pupildiameter")
      outlier_mask ==
        [i \in 1..Len(valid_data) |->
           LET local_stds ==
                 SelectIdx(stds, WindowMask(timestamps, timestamps[i], time_window), 1)
           IN  Len(local_stds) >= 2 /\ is_outlier(local_stds, stds[i], sigma_threshold)]
      hit == { index[i] : i \in { k \in 1..Len(valid_data) : outlier_mask[k] } }
  IN  Invalidate(df, [i \in 1..Len(df) |-> i \in hit])

----------------------------------------------------------------------------
\* Parameters the caller passes to the passes, and the clock.

SizeRanges     == { <<0, 2>>, <<2, 4>> }   \* (min_size, max_size)
MinTimestamps  == {0, 3}
Clock          == {3, 6}
MinIntervals   == {1, 4}
MaxStaticSteps == {1, 2}
Tolerances     == {1}
MaxSpeeds      == {0, 1}                   \* half units per tick
TimeWindows    == {4, 10}                 \* ticks
SigmaThresholds == {1, 2}

----------------------------------------------------------------------------
\* The state machine.

\* A fresh row of FilteredData._data: the raw row (raw_df.copy()); the
\* calculated columns do not exist yet and read NaN.
DataRow(r) ==
  [id |-> r.id, timestamp |-> r.timestamp, type |-> r.type,
   eyeleft |-> r.eyeleft, eyeright |-> r.eyeright, is_valid |-> r.is_valid,
   relative_timestamp |-> NaN, avg_pupildiameter |-> NaN,
   std_pupildiameter |-> NaN, avg_pupildiameter_smooth |-> NaN]

raw_columns(rw) ==
  IF rw.has_is_valid THEN RawColumns \cup {"is_valid"} ELSE RawColumns

Init ==
  /\ rev \in Revisions
  /\ raw \in UNION { RawTables(n, TimeLines(n), RowKinds) : n \in 0..MaxRows }
  /\ data = <<>>
  /\ columns = {}
  /\ start_timestamp = None
  /\ now = 3
  /\ pc = "new"
  /\ timings = <<>>
  /\ result = [call |-> "none", out |-> [kind |-> "none"]]
  /\ disk = [path \in {} |-> <<>>]

\* A variant whose constructor keeps the caller's table itself
\* (self._data = raw_df), so that _prepare_data adds is_valid to it.
set_data_no_copy(new_data, cols, name) ==
  /\ \E o \in prepare_data(rev, new_data, cols) :
        /\ data' = o.data
        /\ start_timestamp' = o.start
  /\ columns' = columns_after(rev, cols)
  /\ pc' = IF name = "create_filtered_data" THEN "constructed" ELSE "filtered"
  /\ raw' = IF name = "create_filtered_data"
            THEN [raw EXCEPT !.has_is_valid = TRUE] ELSE raw
  /\ UNCHANGED <<rev, timings, result, disk>>

\* self._data = new_data.copy(); self._prepare_data()
set_data(new_data, cols, name) ==
  /\ \E o \in prepare_data(rev, new_data, cols) :
        /\ data' = o.data
        /\ start_timestamp' = o.start
  /\ columns' = columns_after(rev, cols)
  /\ pc' = IF name = "create_filtered_data" THEN "constructed" ELSE "filtered"
  /\ UNCHANGED <<rev, raw, timings, result, disk>>

\* RawDataFilter.create_filtered_data / FilteredData.__init__ with a table.
create_filtered_data ==
  /\ pc = "new"
  /\ set_data([i \in 1..Len(raw.rows) |-> DataRow(raw.rows[i])],
              raw_columns(raw), "create_filtered_data")
  /\ UNCHANGED now

Constructed == pc # "new"

FilterOnlyGaze ==
  /\ Constructed
  /\ set_data(filter_only_gaze(data), columns, "filter_only_gaze")
  /\ UNCHANGED now

FilterInvalidPupils ==
  /\ Constructed
  /\ \E sr \in SizeRanges :
        set_data(filter_invalid_pupils(data, sr[1], sr[2]), columns,
                 "filter_invalid_pupils")
  /\ UNCHANGED now

FilterMissingData ==
  /\ Constructed
  /\ set_data(filter_missing_data(data), columns, "filter_missing_data")
  /\ UNCHANGED now

\* current_time = time.time(): the clock never runs backwards.
FilterByTimestamp ==
  /\ Constructed
  /\ \E min_timestamp \in MinTimestamps, current_time \in Clock :
        /\ current_time >= now
        /\ now' = current_time
        /\ set_data(filter_by_timestamp(data, min_timestamp, current_time), columns,
                    "filter_by_timestamp")

FilterUnrealisticEventSpacing ==
  /\ Constructed
  /\ \E min_interval \in MinIntervals :
        set_data(filter_unrealistic_event_spacing(rev, data, min_interval), columns,
                 "filter_unrealistic_event_spacing")
  /\ UNCHANGED now

FilterConstantPupil ==
  /\ Constructed
  /\ \E max_static_steps \in MaxStaticSteps, tolerance \in Tolerances :
        set_data(filter_constant_pupil(data, max_static_steps, tolerance), columns,
                 "filter_constant_pupil")
  /\ UNCHANGED now

FilterAsyncPupilSize ==
  /\ Constructed
  /\ \E tolerance \in Tolerances :
        set_data(filter_async_pupil_size(data, tolerance), columns,
                 "filter_async_pupil_size")
  /\ UNCHANGED now

\* Only the checkpoint revision of RawDataFilter has the two passes below.
\* Each raises ValueError, and changes nothing, when its columns are absent.
FilterPupilSpeed ==
  /\ Constructed
  /\ rev = "checkpoint"
  /\ {"avg_pupildiameter", "relative_timestamp"} \subseteq columns
  /\ \E max_speed \in MaxSpeeds :
        set_data(filter_pupil_speed(data, max_speed), columns, "filter_pupil_speed")
  /\ UNCHANGED now

FilterByStdOutliers ==
  /\ Constructed
  /\ rev = "checkpoint"
  /\ "std_pupildiameter" \in columns
  /\ \E time_window \in TimeWindows, sigma_threshold \in SigmaThresholds :
        set_data(filter_by_std_outliers(data, time_window, sigma_threshold), columns,
                 "filter_by_std_outliers")
  /\ UNCHANGED now

Next ==
  \/ create_filtered_data
  \/ FilterOnlyGaze
  \/ FilterInvalidPupils
  \/ FilterMissingData
  \/ FilterByTimestamp
  \/ FilterUnrealisticEventSpacing
  \/ FilterConstantPupil
  \/ FilterAsyncPupilSize
  \/ FilterPupilSpeed
  \/ FilterByStdOutliers

Spec == Init /\ [][Next]_vars

\* The tables the checks of pairs of passes start from: every raw table of
\* fewer than MaxRows rows, and the tables of MaxRows rows whose timestamps
\* all differ.
AlgebraLines(n) ==
  { f \in TimeLines(n) : n = MaxRows => \A i \in 1..(n - 1) : f[i] < f[i + 1] }

InitAlgebra ==
  /\ rev \in Revisions
  /\ raw \in UNION { RawTables(n, AlgebraLines(n), RowKinds) : n \in 0..MaxRows }
  /\ data = <<>>
  /\ columns = {}
  /\ start_timestamp = None
  /\ now = 3
  /\ pc = "new"
  /\ timings = <<>>
  /\ result = [call |-> "none", out |-> [kind |-> "none"]]
  /\ disk = [path \in {} |-> <<>>]

SpecAlgebra == InitAlgebra /\ [][Next]_vars

----------------------------------------------------------------------------
\* CalibrationProcessor (src/calibration_processor.py).  It reads
\* avg_pupildiameter_smooth, the column only the checkpoint revision of
\* FilteredData writes.  What a call gives back is a record: kind "value"
\* with an exact fraction num / den (den > 0, lowest terms), kind "inf" or
\* "nan" for a float division by zero, or the exception raised.

Raised(e, where) == [kind |-> e, at |-> where]

\* numpy.float64 division: x / 0 is inf (nan for 0 / 0) with a
\* RuntimeWarning; no exception is raised.
Quotient(num, den) ==
  IF den = 0
  THEN (IF num = 0 THEN [kind |-> "nan"]
        ELSE [kind |-> "inf", sign |-> IF num > 0 THEN 1 ELSE -1])
  ELSE LET n == IF den < 0 THEN 0 - num ELSE num
           d == IF den < 0 THEN 0 - den ELSE den
           g == Gcd(IF n < 0 THEN 0 - n ELSE n, d)
       IN  [kind |-> "value", num |-> n \div g, den |-> d \div g]

PhaseNames == {"Baseline", "Positive", "Neutral_2", "Negative", "negative"}

\* load_time_ranges: the items of the user's list as a dict shelf ->
\* time_range (a later item of the same shelf replaces an earlier one).
load_time_ranges(file, user_id) ==
  IF user_id \notin DOMAIN file
  THEN Raised("ValueError", "load_time_ranges")
  ELSE LET items == file[user_id]
           last(shelf) == CHOOSE i \in 1..Len(items) :
                            /\ items[i].shelf = shelf
                            /\ \A j \in (i + 1)..Len(items) : items[j].shelf # shelf
       IN  [kind |-> "dict",
            ranges |-> [shelf \in { items[i].shelf : i \in 1..Len(items) } |->
                          items[last(shelf)].time_range]]

\* df.loc[is_valid & (relative_timestamp >= t0) & (relative_timestamp <= t1)]:
\* the positions of the segment, in table order.
segment(df, t0, t1) ==
  SelectIdx([i \in 1..Len(df) |-> i],
            [i \in 1..Len(df) |->
               /\ df[i].is_valid
               /\ Ge(df[i].relative_timestamp, t0)
               /\ Le(df[i].relative_timestamp, t1)], 1)

\* Series.idxmax() / idxmin(): the first position of seg, in table order,
\* that holds the largest (smallest) value of field f.
idxmax(df, seg, f) ==
  seg[CHOOSE k \in 1..Len(seg) :
        /\ \A j \in 1..Len(seg) : df[seg[j]][f] <= df[seg[k]][f]
        /\ \A j \in 1..(k - 1) : df[seg[j]][f] < df[seg[k]][f]]

idxmin(df, seg, f) ==
  seg[CHOOSE k \in 1..Len(seg) :
        /\ \A j \in 1..Len(seg) : df[seg[j]][f] >= df[seg[k]][f]
        /\ \A j \in 1..(k - 1) : df[seg[j]][f] > df[seg[k]][f]]

\* The values of avg_pupildiameter_smooth over the segment.
smooth_of(df, seg) == [k \in 1..Len(seg) |-> df[seg[k]].avg_pupildiameter_smooth]

\* Lines 30-42.  Returns (segment.mean(), segment.std(ddof=1)); the std of
\* one value is NaN.
compute_baseline(df, time_ranges) ==
  IF "Baseline" \notin DOMAIN time_ranges THEN Raised("KeyError", "compute_baseline")
  ELSE LET t0  == time_ranges["Baseline"][1]
           t1  == time_ranges["Baseline"][2]
           seg == segment(df, t0, t1)
           vals == smooth_of(df, seg)
       IN  IF seg = <<>> THEN Raised("ValueError", "compute_baseline")
           ELSE [kind |-> "value",
                 mean |-> Quotient(SumSeq(vals), Len(vals)),
                 std  |-> IF Len(vals) >= 2 THEN SampleStd(vals) ELSE NaN]

\* (val_peak - baseline_mean) / (t_peak - t0) over the window of phase key.
rise_speed(df, time_ranges, baseline_mean, key, where) ==
  IF key \notin DOMAIN time_ranges THEN Raised("KeyError", where)
  ELSE LET t0  == time_ranges[key][1]
           t1  == time_ranges[key][2]
           seg == segment(df, t0, t1)
       IN  IF seg = <<>> THEN Raised("ValueError", where)
           ELSE LET idx_peak == idxmax(df, seg, "avg_pupildiameter_smooth")
                    t_peak   == df[idx_peak].relative_timestamp
                    val_peak == df[idx_peak].avg_pupildiameter_smooth
                IN  Quotient(val_peak * baseline_mean.den - baseline_mean.num,
                             baseline_mean.den * (t_peak - t0))

\* A variant whose t_end is the time of the latest row of the segment.
fall_speed_to_last_row(df, time_ranges, key, where) ==
  IF key \notin DOMAIN time_ranges THEN Raised("KeyError", where)
  ELSE LET t0  == time_ranges[key][1]
           t1  == time_ranges[key][2]
           seg == segment(df, t0, t1)
       IN  IF seg = <<>> THEN Raised("ValueError", where)
           ELSE LET idx_peak == idxmax(df, seg, "avg_pupildiameter_smooth")
                    t_peak   == df[idx_peak].relative_timestamp
                    val_peak == df[idx_peak].avg_pupildiameter_smooth
                    idx_end  == idxmax(df, seg, "relative_timestamp")
                    t_end    == df[idx_end].relative_timestamp
                    val_end  == df[idx_end].avg_pupildiameter_smooth
                IN  Quotient(val_peak - val_end, t_end - t_peak)

\* (val_peak - val_end) / (t_end - t_peak) with t_end = t1, the end of the
\* phase, and val_end the value of the latest row of the segment.
fall_speed(df, time_ranges, key, where) ==
  IF key \notin DOMAIN time_ranges THEN Raised("KeyError", where)
  ELSE LET t0  == time_ranges[key][1]
           t1  == time_ranges[key][2]
           seg == segment(df, t0, t1)
       IN  IF seg = <<>> THEN Raised("ValueError", where)
           ELSE LET idx_peak == idxmax(df, seg, "avg_pupildiameter_smooth")
                    t_peak   == df[idx_peak].relative_timestamp
                    val_peak == df[idx_peak].avg_pupildiameter_smooth
                    idx_end  == idxmax(df, seg, "relative_timestamp")
                    t_end    == t1
                    val_end  == df[idx_end].avg_pupildiameter_smooth
                IN  Quotient(val_peak - val_end, t_end - t_peak)

\* seg.mean() / baseline_mean over the window of phase key.
mean_ratio(df, time_ranges, baseline_mean, key, where) ==
  IF key \notin DOMAIN time_ranges THEN Raised("KeyError", where)
  ELSE LET t0  == time_ranges[key][1]
           t1  == time_ranges[key][2]
           seg == segment(df, t0, t1)
           vals == smooth_of(df, seg)
       IN  IF seg = <<>> THEN Raised("ValueError", where)
           ELSE Quotient(SumSeq(vals) * baseline_mean.den,
                         Len(vals) * baseline_mean.num)

\* Lines 44-60.
compute_positive_rise_speed(df, time_ranges, baseline_mean) ==
  rise_speed(df, time_ranges, baseline_mean, "Positive", "compute_positive_rise_speed")

\* Lines 62-81.
compute_positive_fall_speed(df, time_ranges, baseline_mean) ==
  fall_speed(df, time_ranges, "Positive", "compute_positive_fall_speed")

\* Lines 83-98: the window is looked up under 'negative' (line 86).
compute_negative_rise_speed(df, time_ranges, baseline_mean) ==
  rise_speed(df, time_ranges, baseline_mean, "negative", "compute_negative_rise_speed")

\* Lines 100-118.
compute_negative_fall_speed(df, time_ranges, baseline_mean) ==
  fall_speed(df, time_ranges, "Negative", "compute_negative_fall_speed")

\* Lines 120-136: (val_start - val_end) / (t1 - t0), the values of the
\* earliest and of the latest row of the segment.
compute_neutral2_recovery_speed(df, time_ranges, baseline_mean) ==
  IF "Neutral_2" \notin DOMAIN time_ranges
  THEN Raised("KeyError", "compute_neutral2_recovery_speed")
  ELSE LET t0  == time_ranges["Neutral_2"][1]
           t1  == time_ranges["Neutral_2"][2]
           seg == segment(df, t0, t1)
       IN  IF seg = <<>> THEN Raised("ValueError", "compute_neutral2_recovery_speed")
           ELSE LET idx_start == idxmin(df, seg, "relative_timestamp")
                    idx_end   == idxmax(df, seg, "relative_timestamp")
                    val_start == df[idx_start].avg_pupildiameter_smooth
                    val_end   == df[idx_end].avg_pupildiameter_smooth
                IN  Quotient(val_start - val_end, t1 - t0)

\* Lines 138-150.
compute_positive_mean_ratio(df, time_ranges, baseline_mean) ==
  mean_ratio(df, time_ranges, baseline_mean, "Positive", "compute_positive_mean_ratio")

\* Lines 152-164: the window is looked up under 'Positive' (line 155).
compute_negative_mean_ratio(df, time_ranges, baseline_mean) ==
  mean_ratio(df, time_ranges, baseline_mean, "Positive", "compute_negative_mean_ratio")

IsRaised(out) == out.kind \in {"KeyError", "ValueError"}

\* Lines 166-189: the first exception ends the call; otherwise the
\* CalibrationData built from the nine values and user_id.
process(df, file, user_id) ==
  LET loaded == load_time_ranges(file, user_id)
  IN  IF IsRaised(loaded) THEN loaded
      ELSE LET time_ranges == loaded.ranges
               baseline    == compute_baseline(df, time_ranges)
           IN  IF IsRaised(baseline) THEN baseline
               ELSE LET baseline_mean == baseline.mean
                        pos_rise   == compute_positive_rise_speed(df, time_ranges, baseline_mean)
                        pos_fall   == compute_positive_fall_speed(df, time_ranges, baseline_mean)
                        neg_rise   == compute_negative_rise_speed(df, time_ranges, baseline_mean)
                        neg_fall   == compute_negative_fall_speed(df, time_ranges, baseline_mean)
                        neutral2_r == compute_neutral2_recovery_speed(df, time_ranges, baseline_mean)
                        pos_ratio  == compute_positive_mean_ratio(df, time_ranges, baseline_mean)
                        neg_ratio  == compute_negative_mean_ratio(df, time_ranges, baseline_mean)
                        calls == <<pos_rise, pos_fall, neg_rise, neg_fall, neutral2_r,
                                   pos_ratio, neg_ratio>>
                        failed == { k \in 1..Len(calls) : IsRaised(calls[k]) }
                    IN  IF failed # {}
                        THEN calls[CHOOSE k \in failed : \A j \in failed : k <= j]
                        ELSE [kind |-> "CalibrationData",
                              user_id |-> user_id,
                              baseline_mean |-> baseline_mean,
                              baseline_std |-> baseline.std,
                              positive_rise_speed |-> pos_rise,
                              negative_rise_speed |-> neg_rise,
                              positive_fall_speed |-> pos_fall,
                              negative_fall_speed |-> neg_fall,
                              neutral2_recovery_speed |-> neutral2_r,
                              positive_mean_ratio |-> pos_ratio,
                              negative_mean_ratio |-> neg_ratio]

\* The seven extractors that take baseline_mean.
Extractors ==
  {"compute_positive_rise_speed", "compute_positive_fall_speed",
   "compute_negative_rise_speed", "compute_negative_fall_speed",
   "compute_neutral2_recovery_speed", "compute_positive_mean_ratio",
   "compute_negative_mean_ratio"}

extract(name, df, time_ranges, baseline_mean) ==
  CASE name = "compute_positive_rise_speed" ->
         compute_positive_rise_speed(df, time_ranges, baseline_mean)
    [] name = "compute_positive_fall_speed" ->
         compute_positive_fall_speed(df, time_ranges, baseline_mean)
    [] name = "compute_negative_rise_speed" ->
         compute_negative_rise_speed(df, time_ranges, baseline_mean)
    [] name = "compute_negative_fall_speed" ->
         compute_negative_fall_speed(df, time_ranges, baseline_mean)
    [] name = "compute_neutral2_recovery_speed" ->
         compute_neutral2_recovery_speed(df, time_ranges, baseline_mean)
    [] name = "compute_positive_mean_ratio" ->
         compute_positive_mean_ratio(df, time_ranges, baseline_mean)
    [] name = "compute_negative_mean_ratio" ->
         compute_negative_mean_ratio(df, time_ranges, baseline_mean)

----------------------------------------------------------------------------
\* The calibration session: a table is built and cleaned, then the phase
\* metrics are extracted from it.

Users == {1, 2}

\* Timestamps of the calibration recordings, in ticks.
CalibTimes == {0, 3, 6, 9}

\* Recordings with both eye diameters present on every row.
CalibKinds == { <<"gaze", 1, 1>>, <<"gaze", 1, 3>> }

CalibLines(n) ==
  { f \in [1..n -> CalibTimes] : \A i \in 1..(n - 1) : f[i] < f[i + 1] }

Item(shelf, t0, t1) == [shelf |-> shelf, time_range |-> <<t0, t1>>]

\* Four consecutive phases, as in the docstring of load_time_ranges.
StandardPhases ==
  << Item("Baseline", 0, 3), Item("Positive", 3, 6),
     Item("Neutral_2", 6, 9), Item("Negative", 9, 12) >>

\* The phase lists a timings file can hold for a user: the standard one;
\* one that starts with a baseline of a single instant; one whose Neutral_2
\* phase is a single instant; one without Negative; one with a further
\* shelf named 'negative'.
ShelfLists ==
  { StandardPhases,
    << Item("Baseline", 0, 0), Item("Positive", 0, 3),
       Item("Neutral_2", 3, 6), Item("Negative", 6, 9) >>,
    [StandardPhases EXCEPT ![3] = Item("Neutral_2", 6, 6)],
    SubSeq(StandardPhases, 1, 3),
    StandardPhases \o << Item("negative", 9, 12) >> }

\* A timings file: the lists of the users it knows, keyed by user id.
TimingFiles == { [u \in {1} |-> l] : l \in ShelfLists }

InitCalib ==
  /\ rev = "checkpoint"
  /\ raw \in UNION { RawTables(n, CalibLines(n), CalibKinds) : n \in 0..MaxRows }
  /\ data = <<>>
  /\ columns = {}
  /\ start_timestamp = None
  /\ now = 3
  /\ pc = "new"
  /\ timings \in TimingFiles
  /\ result = [call |-> "none", out |-> [kind |-> "none"]]
  /\ disk = [path \in {} |-> <<>>]

Returned(name, out) == [call |-> name, out |-> out]

LoadTimeRanges ==
  /\ \E user_id \in Users :
        result' = [call |-> "load_time_ranges", user_id |-> user_id,
                   out |-> load_time_ranges(timings, user_id)]
  /\ UNCHANGED <<rev, raw, data, columns, start_timestamp, now, pc, timings, disk>>

\* The dicts load_time_ranges gives the caller from the timings file.
LoadedRanges ==
  { load_time_ranges(timings, u).ranges :
      u \in { v \in Users : ~IsRaised(load_time_ranges(timings, v)) } }

ComputeBaseline ==
  /\ Constructed
  /\ \E time_ranges \in LoadedRanges :
        result' = Returned("compute_baseline", compute_baseline(data, time_ranges))
  /\ UNCHANGED <<rev, raw, data, columns, start_timestamp, now, pc, timings, disk>>

\* An extractor called with the mean compute_baseline returned.
ComputeMetric ==
  /\ Constructed
  /\ \E time_ranges \in LoadedRanges, name \in Extractors :
        LET baseline == compute_baseline(data, time_ranges)
        IN  /\ ~IsRaised(baseline)
            /\ result' = Returned(name, extract(name, data, time_ranges, baseline.mean))
  /\ UNCHANGED <<rev, raw, data, columns, start_timestamp, now, pc, timings, disk>>

Process ==
  /\ Constructed
  /\ \E user_id \in Users :
        result' = [call |-> "process", user_id |-> user_id,
                   out |-> process(data, timings, user_id)]
  /\ UNCHANGED <<rev, raw, data, columns, start_timestamp, now, pc, timings, disk>>

NextCalib ==
  \/ create_filtered_data
  \/ FilterInvalidPupils
  \/ FilterPupilSpeed
  \/ LoadTimeRanges
  \/ ComputeBaseline
  \/ ComputeMetric
  \/ Process

SpecCalib == InitCalib /\ [][NextCalib]_vars

----------------------------------------------------------------------------
\* CalibrationData (calibration_data-checkpoint.py): the record process
\* builds, its flat form, and its JSON file.

\* The keys of to_dict, in the order the dict literal inserts them.
DictKeys ==
  <<"user_id", "baseline_mean", "baseline_std", "positive_rise_speed",
    "negative_rise_speed", "positive_fall_speed", "negative_fall_speed",
    "neutral2_recovery_speed", "positive_mean_ratio", "negative_mean_ratio">>

to_dict(self) ==
  [key \in { DictKeys[i] : i \in 1..Len(DictKeys) } |-> self[key]]

\* float.__repr__ as json.dump uses it (allow_nan is left True): nan is
\* written NaN, inf Infinity or -Infinity, a finite float as the shortest
\* decimal literal that reads back as the same float, a leading '-' for a
\* negative one.
float_repr_unsigned(x) ==
  CASE x.kind = "nan" -> [lit |-> "NaN"]
    [] x.kind = "inf" -> [lit |-> "Infinity"]
    [] x.kind = "value" ->
         [lit |-> "number", minus |-> FALSE,
          num |-> IF x.num < 0 THEN 0 - x.num ELSE x.num, den |-> x.den]

float_repr(x) ==
  CASE x.kind = "nan" -> [lit |-> "NaN"]
    [] x.kind = "inf" -> [lit |-> IF x.sign > 0 THEN "Infinity" ELSE "-Infinity"]
    [] x.kind = "value" ->
         [lit |-> "number", minus |-> x.num < 0,
          num |-> IF x.num < 0 THEN 0 - x.num ELSE x.num, den |-> x.den]

\* json's float(): the inverse reading of a literal.
float_of(tok) ==
  CASE tok.lit = "NaN" -> [kind |-> "nan"]
    [] tok.lit = "Infinity" -> [kind |-> "inf", sign |-> 1]
    [] tok.lit = "-Infinity" -> [kind |-> "inf", sign |-> -1]
    [] tok.lit = "number" ->
         Quotient(IF tok.minus THEN 0 - tok.num ELSE tok.num, tok.den)

\* The value of a key as the encoder sees it: user_id is an int,
\* baseline_std a float held in units of 1/StdScale (NaN for the std of one
\* value), every other key a float.
json_encode(key, v) ==
  CASE key = "user_id" -> [lit |-> "int", minus |-> v < 0,
                           digits |-> IF v < 0 THEN 0 - v ELSE v]
    [] key = "baseline_std" ->
         float_repr(IF IsNaN(v) THEN [kind |-> "nan"] ELSE Quotient(v, StdScale))
    [] OTHER -> float_repr(v)

json_decode(key, tok) ==
  CASE key = "user_id" -> IF tok.minus THEN 0 - tok.digits ELSE tok.digits
    [] key = "baseline_std" ->
         LET x == float_of(tok)
         IN  IF x.kind = "value" THEN (x.num * StdScale) \div x.den ELSE NaN
    [] OTHER -> float_of(tok)

\* json.dump(d, f, indent=4): the members of the object in insertion order
\* (the whitespace indent=4 adds carries nothing).
json_dump(d) ==
  [i \in 1..Len(DictKeys) |->
     [name |-> DictKeys[i], value |-> json_encode(DictKeys[i], d[DictKeys[i]])]]

\* json.load(f): a dict of the members; a later member of the same name
\* replaces an earlier one.
json_load(text) ==
  LET last(name) == CHOOSE i \in 1..Len(text) :
                      /\ text[i].name = name
                      /\ \A j \in (i + 1)..Len(text) : text[j].name # name
  IN  [name \in { text[i].name : i \in 1..Len(text) } |->
         json_decode(name, text[last(name)].value)]

\* Lines 58-63: open(path, 'w') replaces the file with the dump of to_dict().
save(self, files, path) ==
  [p \in DOMAIN files \cup {path} |->
     IF p = path THEN json_dump(to_dict(self)) ELSE files[p]]

\* Lines 65-83: the record built from the ten keys of the file.
load(files, path) ==
  IF path \notin DOMAIN files THEN Raised("FileNotFoundError", "load")
  ELSE LET d == json_load(files[path])
       IN  IF \E i \in 1..Len(DictKeys) : DictKeys[i] \notin DOMAIN d
           THEN Raised("KeyError", "load")
           ELSE [kind |-> "CalibrationData",
                 user_id |-> d["user_id"],
                 baseline_mean |-> d["baseline_mean"],
                 baseline_std |-> d["baseline_std"],
                 positive_rise_speed |-> d["positive_rise_speed"],
                 negative_rise_speed |-> d["negative_rise_speed"],
                 positive_fall_speed |-> d["positive_fall_speed"],
                 negative_fall_speed |-> d["negative_fall_speed"],
                 neutral2_recovery_speed |-> d["neutral2_recovery_speed"],
                 positive_mean_ratio |-> d["positive_mean_ratio"],
                 negative_mean_ratio |-> d["negative_mean_ratio"]]

Paths == {"calibration_1.json", "calibration_2.json"}

\* calibration_data.save(path) on the record the last call returned.
Save ==
  /\ result.out.kind = "CalibrationData"
  /\ \E path \in Paths : disk' = save(result.out, disk, path)
  /\ UNCHANGED <<rev, raw, data, columns, start_timestamp, now, pc, timings, result>>

\* CalibrationData.load(path).
Load ==
  /\ \E path \in Paths :
        result' = [call |-> "load", path |-> path, out |-> load(disk, path)]
  /\ UNCHANGED <<rev, raw, data, columns, start_timestamp, now, pc, timings, disk>>

NextRecord ==
  \/ create_filtered_data
  \/ Process
  \/ Save
  \/ Load

SpecRecord == InitCalib /\ [][NextRecord]_vars

----------------------------------------------------------------------------
\* Rows are told apart by id, their position in the raw table: the
\* checkpoint revision re-sorts the table in every set_data.

Ids(t)        == { t[i].id : i \in 1..Len(t) }
ValidIds(t)   == { t[i].id : i \in { j \in 1..Len(t) : t[j].is_valid } }
InvalidIds(t) == Ids(t) \ ValidIds(t)
RowOf(t, id)  == t[CHOOSE i \in 1..Len(t) : t[i].id = id]

\* C1.  Monotonic validity: whatever pass runs on a constructed table, every
\* row that is invalid before the pass is invalid after it (with the
\* recompute of set_data), and no row is added or dropped.
C1_MonotonicValidity ==
  [][Constructed => /\ InvalidIds(data) \subseteq InvalidIds(data')
                    /\ Ids(data') = Ids(data)]_vars

\* A pass has run and the table holds both an invalid and a valid row.
C1_Witness ==
  /\ pc = "filtered"
  /\ InvalidIds(data) # {}
  /\ ValidIds(data) # {}

\* C2.  Recompute consistency: after construction and after every pass,
\* while some row is valid, start_timestamp is the timestamp of a valid row
\* and no valid row is earlier, and every valid row has relative_timestamp =
\* timestamp - start_timestamp.
C2_RecomputeConsistency ==
  (Constructed /\ ValidIds(data) # {}) =>
     /\ \E i \in 1..Len(data) : data[i].is_valid /\ data[i].timestamp = start_timestamp
     /\ \A i \in 1..Len(data) :
          data[i].is_valid =>
            /\ start_timestamp <= data[i].timestamp
            /\ data[i].relative_timestamp = data[i].timestamp - start_timestamp

\* A pass has invalidated the earliest row: the session start moved, and a
\* valid row lies after the new start.
C2_Witness ==
  /\ pc = "filtered"
  /\ \E i \in 1..Len(data) : ~data[i].is_valid /\ data[i].timestamp < start_timestamp
  /\ \E i \in 1..Len(data) : data[i].is_valid /\ data[i].relative_timestamp > 0

\* C3.  Derived fields are defined only on valid rows: after every pass (its
\* set_data included) an invalid row has relative_timestamp and
\* std_pupildiameter NaN.
C3_DerivedOnlyOnValid ==
  pc = "filtered" =>
    \A i \in 1..Len(data) :
      ~data[i].is_valid =>
        /\ IsNaN(data[i].relative_timestamp)
        /\ IsNaN(data[i].std_pupildiameter)

\* The valid rows of t whose relative_timestamp lies in the closed window
\* of StdWindow ticks around row i.
StdNeighbours(t, i) ==
  { j \in 1..Len(t) :
      /\ t[j].is_valid
      /\ t[j].relative_timestamp >= t[i].relative_timestamp - StdWindow
      /\ t[j].relative_timestamp <= t[i].relative_timestamp + StdWindow }

\* The values of field f at the positions of set P, in table order.
FieldAt(t, P, f) ==
  SelectIdx(Column(t, f), [j \in 1..Len(t) |-> j \in P], 1)

\* C4.  Windowed std availability (checkpoint revision, the one that has the
\* column): right after construction and after every set_data, a valid row
\* whose window holds at least 2 valid rows, all with both eye diameters
\* present, has the sample standard deviation of those rows'
\* avg_pupildiameter; a valid row alone in its window has NaN.
C4_StdAvailable ==
  (Constructed /\ rev = "checkpoint") =>
    \A i \in 1..Len(data) :
      data[i].is_valid =>
        LET W    == StdNeighbours(data, i)
            avgs == FieldAt(data, W, "avg_pupildiameter")
        IN  /\ (Cardinality(W) >= 2 /\ ~HasNaN(avgs)) =>
                 data[i].std_pupildiameter = SampleStd(avgs)
            /\ Cardinality(W) < 2 => IsNaN(data[i].std_pupildiameter)

----------------------------------------------------------------------------
\* The calls a caller can make on a constructed table: a pass with its
\* parameters.  The checkpoint revision has two passes more.

PassCalls(r) ==
  { [name |-> "filter_only_gaze"], [name |-> "filter_missing_data"] }
  \cup { [name |-> "filter_invalid_pupils", min_size |-> sr[1], max_size |-> sr[2]] :
           sr \in SizeRanges }
  \cup { [name |-> "filter_by_timestamp", min_timestamp |-> m, current_time |-> c] :
           m \in MinTimestamps, c \in Clock }
  \cup { [name |-> "filter_unrealistic_event_spacing", min_interval |-> m] :
           m \in MinIntervals }
  \cup { [name |-> "filter_constant_pupil", max_static_steps |-> m, tolerance |-> x] :
           m \in MaxStaticSteps, x \in Tolerances }
  \cup { [name |-> "filter_async_pupil_size", tolerance |-> x] : x \in Tolerances }
  \cup (IF r = "checkpoint"
        THEN { [name |-> "filter_pupil_speed", max_speed |-> m] : m \in MaxSpeeds }
             \cup { [name |-> "filter_by_std_outliers", time_window |-> w,
                     sigma_threshold |-> g] : w \in TimeWindows, g \in SigmaThresholds }
        ELSE {})

\* The table the pass hands to set_data.
apply_pass(r, p, df) ==
  CASE p.name = "filter_only_gaze" -> filter_only_gaze(df)
    [] p.name = "filter_missing_data" -> filter_missing_data(df)
    [] p.name = "filter_invalid_pupils" -> filter_invalid_pupils(df, p.min_size, p.max_size)
    [] p.name = "filter_by_timestamp" ->
         filter_by_timestamp(df, p.min_timestamp, p.current_time)
    [] p.name = "filter_unrealistic_event_spacing" ->
         filter_unrealistic_event_spacing(r, df, p.min_interval)
    [] p.name = "filter_constant_pupil" ->
         filter_constant_pupil(df, p.max_static_steps, p.tolerance)
    [] p.name = "filter_async_pupil_size" -> filter_async_pupil_size(df, p.tolerance)
    [] p.name = "filter_pupil_speed" -> filter_pupil_speed(df, p.max_speed)
    [] p.name = "filter_by_std_outliers" ->
         filter_by_std_outliers(df, p.time_window, p.sigma_threshold)

\* The tables FilteredData can hold after the call p on table df.
pass_outcomes(r, p, df, cols) ==
  { o.data : o \in prepare_data(r, apply_pass(r, p, df), cols) }

\* The same call made again: the same pass and parameters; the clock a
\* second filter_by_timestamp reads is not earlier than the first's.
SameCallAgain(p) ==
  IF p.name = "filter_by_timestamp"
  THEN { [p EXCEPT !.current_time = c] : c \in { x \in Clock : x >= p.current_time } }
  ELSE { p }

\* Calls possible in the current state (the clock has reached now).
CallsNow ==
  { p \in PassCalls(rev) : p.name = "filter_by_timestamp" => p.current_time >= now }

\* The call p is idempotent on the current table: made twice in a row it
\* leaves the valid rows the first call left.
IdempotentHere(p) ==
  \A t1 \in pass_outcomes(rev, p, data, columns) :
    \A p2 \in SameCallAgain(p) :
      \A t2 \in pass_outcomes(rev, p2, t1, columns) :
        ValidIds(t2) = ValidIds(t1)

\* C5 as stated.  Idempotence of every pass, the speed filter and the
\* std-outlier filter included: on every constructed table, any call made
\* twice in a row leaves the valid rows one call leaves.
C5_IdempotentEveryPass ==
  Constructed => \A p \in CallsNow : IdempotentHere(p)

\* set_data keeps the order of the rows: the working revision never sorts,
\* and the checkpoint's sort_values has one outcome when no two rows share a
\* timestamp.
OrderKept ==
  \/ rev = "working"
  \/ \A i, j \in 1..Len(data) : i # j => data[i].timestamp # data[j].timestamp

\* Passes whose mask is read from each row's own raw columns, or from the
\* timestamps of neighbouring rows.
RowwisePasses ==
  {"filter_only_gaze", "filter_invalid_pupils", "filter_missing_data",
   "filter_by_timestamp", "filter_unrealistic_event_spacing"}

\* Passes whose mask is read from the eye diameters of neighbouring rows.
NeighbourPasses == {"filter_constant_pupil", "filter_async_pupil_size"}

\* C5, amended.  Applying the same pass twice in a row with the same
\* parameters leaves the valid rows one application leaves, for the type,
\* range, completeness, timestamp-bounds and spacing passes on every table,
\* and for the constant-pupil and async-pupil passes on every table whose
\* row order set_data keeps.
C5_IdempotentRawPasses ==
  Constructed =>
    \A p \in CallsNow :
      (\/ p.name \in RowwisePasses
       \/ (p.name \in NeighbourPasses /\ OrderKept)) => IdempotentHere(p)

\* A table on which a row-wise pass and a neighbour pass each invalidate a
\* row that was valid, and a second application then changes nothing.
C5_Witness ==
  /\ Constructed
  /\ \E p \in CallsNow :
        /\ p.name \in RowwisePasses
        /\ \E t1 \in pass_outcomes(rev, p, data, columns) : ValidIds(t1) # ValidIds(data)
        /\ IdempotentHere(p)
  /\ \E p \in CallsNow :
        /\ p.name \in NeighbourPasses
        /\ OrderKept
        /\ \E t1 \in pass_outcomes(rev, p, data, columns) : ValidIds(t1) # ValidIds(data)
        /\ IdempotentHere(p)

\* The sets of valid rows that call p followed by call q can leave, from the
\* current table.
ValidAfter(p, q) ==
  { ValidIds(t2) : t2 \in UNION { pass_outcomes(rev, q, t1, columns) :
                                   t1 \in pass_outcomes(rev, p, data, columns) } }

\* The calls p and q commute on the current table: both orders leave one
\* and the same set of valid rows.
CommuteHere(p, q) ==
  \A v \in ValidAfter(p, q) : \A w \in ValidAfter(q, p) : v = w

\* The pairs of different calls possible in the current state.
CallPairs == { P \in { {p, q} : p, q \in CallsNow } : Cardinality(P) = 2 }

PairNames(P) == { p.name : p \in P }

\* The two calls of pair P commute on the current table.
PairCommutes(P) ==
  LET p == CHOOSE x \in P : TRUE
      q == CHOOSE x \in P : x # p
  IN  CommuteHere(p, q)

\* C6 as stated.  Commutativity of final validity: on every constructed
\* table, any two calls leave the same valid rows in either order.
C6_CommuteEveryPass ==
  Constructed => \A P \in CallPairs : PairCommutes(P)

\* C6, amended.  Two passes leave the same valid rows in either order when
\* both are among the type, range, completeness, timestamp-bounds and
\* spacing passes, on every table; and when both are among those five and
\* the constant-pupil and async-pupil passes, on every table whose row order
\* set_data keeps.
C6_CommuteRawPasses ==
  Constructed =>
    \A P \in CallPairs :
      (\/ PairNames(P) \subseteq RowwisePasses
       \/ (PairNames(P) \subseteq RowwisePasses \cup NeighbourPasses /\ OrderKept))
        => PairCommutes(P)

\* A table on which a row-wise pass and a neighbour pass invalidate
\* different rows, each a row the other leaves valid, and commute.
C6_Witness ==
  /\ Constructed
  /\ OrderKept
  /\ \E p, q \in CallsNow :
        /\ p.name \in RowwisePasses
        /\ q.name \in NeighbourPasses
        /\ \E t1 \in pass_outcomes(rev, p, data, columns),
              t2 \in pass_outcomes(rev, q, data, columns) :
              /\ (ValidIds(data) \ ValidIds(t1)) \ (ValidIds(data) \ ValidIds(t2)) # {}
              /\ (ValidIds(data) \ ValidIds(t2)) \ (ValidIds(data) \ ValidIds(t1)) # {}
        /\ CommuteHere(p, q)

\* C7 as stated.  Spacing filter: for every pair of consecutive rows of the
\* table whose timestamps differ by less than min_interval, both rows are
\* invalid after filter_unrealistic_event_spacing, and a row in no such pair
\* keeps its validity.
C7_SpacingBothEndpoints ==
  Constructed =>
    \A min_interval \in MinIntervals :
      \A t1 \in pass_outcomes(rev, [name |-> "filter_unrealistic_event_spacing",
                                    min_interval |-> min_interval], data, columns) :
        LET short == { i \in 2..Len(data) :
                         data[i].timestamp - data[i - 1].timestamp < min_interval }
            ends  == { data[i].id : i \in short } \cup { data[i - 1].id : i \in short }
        IN  /\ ends \subseteq InvalidIds(t1)
            /\ \A id \in Ids(data) \ ends :
                 RowOf(t1, id).is_valid = RowOf(data, id).is_valid

----------------------------------------------------------------------------
\* Claims about CalibrationProcessor, on the steps of SpecCalib.

\* The step is a call of the extractor name.
Called(name) == result' # result /\ result'.call = name

FourPhases == {"Baseline", "Positive", "Neutral_2", "Negative"}

\* The table has a valid row inside the window of every one of the four
\* phases.
RowInEachWindow(df, time_ranges) ==
  \A ph \in FourPhases :
    segment(df, time_ranges[ph][1], time_ranges[ph][2]) # <<>>

\* C8.  End-to-end extraction: when the user's phase map has the entries
\* Baseline, Positive, Neutral_2 and Negative and the table has a valid row
\* inside each of the four windows, process returns a CalibrationData whose
\* negative_rise_speed is (peak value in the Negative window - baseline
\* mean) / (peak time - Negative phase start).
C8_ProcessCompletes ==
  [][ (/\ Called("process")
       /\ ~IsRaised(load_time_ranges(timings, result'.user_id))
       /\ FourPhases \subseteq DOMAIN load_time_ranges(timings, result'.user_id).ranges
       /\ RowInEachWindow(data, load_time_ranges(timings, result'.user_id).ranges))
      => (/\ result'.out.kind = "CalibrationData"
          /\ result'.out.negative_rise_speed =
                rise_speed(data, load_time_ranges(timings, result'.user_id).ranges,
                           result'.out.baseline_mean, "Negative",
                           "compute_negative_rise_speed")) ]_vars

\* The phase map has the entry key and the table a valid row in its window.
RowInWindow(df, time_ranges, key) ==
  /\ key \in DOMAIN time_ranges
  /\ segment(df, time_ranges[key][1], time_ranges[key][2]) # <<>>

\* C9.  Mean ratio per stimulus phase: compute_negative_mean_ratio gives the
\* mean of avg_pupildiameter_smooth over the valid rows of the Negative
\* window divided by baseline_mean, and compute_positive_mean_ratio the
\* same over the Positive window.
C9_MeanRatioPerPhase ==
  [][ \A time_ranges \in LoadedRanges :
        LET baseline == compute_baseline(data, time_ranges)
        IN  /\ (/\ Called("compute_negative_mean_ratio")
                /\ RowInWindow(data, time_ranges, "Negative"))
                  => result'.out = mean_ratio(data, time_ranges, baseline.mean, "Negative",
                                              "compute_negative_mean_ratio")
            /\ (/\ Called("compute_positive_mean_ratio")
                /\ RowInWindow(data, time_ranges, "Positive"))
                  => result'.out = mean_ratio(data, time_ranges, baseline.mean, "Positive",
                                              "compute_positive_mean_ratio") ]_vars

\* The denominator of the fall speed over the window of phase key is zero:
\* the peak of the segment lies at the end of the phase.
PeakAtPhaseEnd(df, time_ranges, key) ==
  LET seg == segment(df, time_ranges[key][1], time_ranges[key][2])
  IN  /\ seg # <<>>
      /\ df[idxmax(df, seg, "avg_pupildiameter_smooth")].relative_timestamp
            = time_ranges[key][2]

\* C10.  Degenerate interval: a fall-speed call whose peak time equals the
\* phase end, and a recovery-speed call whose phase start equals its phase
\* end, raise an error and return no value.
C10_DegenerateIntervalRaises ==
  [][ \A time_ranges \in LoadedRanges :
        /\ (/\ Called("compute_positive_fall_speed")
            /\ PeakAtPhaseEnd(data, time_ranges, "Positive")) => IsRaised(result'.out)
        /\ (/\ Called("compute_negative_fall_speed")
            /\ "Negative" \in DOMAIN time_ranges
            /\ PeakAtPhaseEnd(data, time_ranges, "Negative")) => IsRaised(result'.out)
        /\ (/\ Called("compute_neutral2_recovery_speed")
            /\ time_ranges["Neutral_2"][1] = time_ranges["Neutral_2"][2])
              => IsRaised(result'.out) ]_vars


\* The phase each extractor is named for.
PhaseOf(name) ==
  CASE name = "compute_baseline" -> "Baseline"
    [] name \in {"compute_positive_rise_speed", "compute_positive_fall_speed",
                 "compute_positive_mean_ratio"} -> "Positive"
    [] name \in {"compute_negative_rise_speed", "compute_negative_fall_speed",
                 "compute_negative_mean_ratio"} -> "Negative"
    [] name = "compute_neutral2_recovery_speed" -> "Neutral_2"

\* C11.  Empty-segment and missing-phase failure: a call of an extractor
\* whose phase is absent from the phase map, or whose phase window holds no
\* valid row, raises an error; load_time_ranges raises an error when the
\* user is absent from the timings file.
C11_EmptyOrMissingRaises ==
  [][ /\ \A time_ranges \in LoadedRanges :
            \A name \in Extractors \cup {"compute_baseline"} :
              (Called(name) /\ ~RowInWindow(data, time_ranges, PhaseOf(name)))
                => IsRaised(result'.out)
      /\ (Called("load_time_ranges") /\ result'.user_id \notin DOMAIN timings)
            => IsRaised(result'.out) ]_vars

\* C12.  Zero valid rows: once construction or a pass (set_data included)
\* has left no row valid, session_start is None and relative_timestamp,
\* std_pupildiameter and avg_pupildiameter_smooth are NaN on every row.
C12_NoValidRowsAllUndefined ==
  (Constructed /\ \A i \in 1..Len(data) : ~data[i].is_valid) =>
    /\ start_timestamp = None
    /\ \A i \in 1..Len(data) :
          /\ IsNaN(data[i].relative_timestamp)
          /\ IsNaN(data[i].std_pupildiameter)
          /\ IsNaN(data[i].avg_pupildiameter_smooth)

\* The step wrote the file at path p.
Saved(p) ==
  /\ p \in DOMAIN disk'
  /\ disk' # disk
  /\ disk' = save(result.out, disk, p)

\* The nine fields of the Calibration Record as the data model lists them.
NineFields ==
  {"baseline_mean", "baseline_std", "positive_rise_speed", "negative_rise_speed",
   "positive_fall_speed", "negative_fall_speed", "recovery_speed",
   "positive_mean_ratio", "negative_mean_ratio"}

\* The keys to_dict has: user_id and the nine values, the recovery speed
\* under the name neutral2_recovery_speed.
TenKeys ==
  ((NineFields \ {"recovery_speed"}) \cup {"neutral2_recovery_speed", "user_id"})

\* C13.  Calibration Record round trip, as stated: saving a record r and
\* loading the file gives a record whose to_dict equals that of r, and
\* to_dict has exactly the nine fields of the data model.
C13_RoundTripNineFields ==
  [][ \A p \in Paths :
        Saved(p) =>
          LET l == load(disk', p)
          IN  /\ l.kind = "CalibrationData"
              /\ to_dict(l) = to_dict(result.out)
              /\ DOMAIN to_dict(result.out) = NineFields ]_vars

\* C13, amended.  Saving a record r and loading the file gives a record
\* whose to_dict has the same ten keys (user_id and the nine values, the
\* recovery speed as neutral2_recovery_speed) with the same scalar under
\* each key, NaN read back as NaN and +-inf as +-inf.
C13_RoundTripTenKeys ==
  [][ \A p \in Paths :
        Saved(p) =>
          LET l == load(disk', p)
          IN  /\ l.kind = "CalibrationData"
              /\ to_dict(l) = to_dict(result.out)
              /\ DOMAIN to_dict(result.out) = TenKeys
              /\ DOMAIN to_dict(l) = TenKeys ]_vars

\* A record with a NaN, an infinite and a finite value has been saved and
\* loaded back.
C13_Witness ==
  /\ result.call = "load"
  /\ result.out.kind = "CalibrationData"
  /\ \E p \in DOMAIN disk : disk[p] = json_dump(to_dict(result.out))
  /\ IsNaN(result.out.baseline_std)
  /\ \E k \in TenKeys \ {"user_id", "baseline_std"} : result.out[k].kind = "inf"
  /\ \E k \in TenKeys \ {"user_id", "baseline_std"} : result.out[k].kind = "value"

\* Positions j < k of t hold consecutive rows of the valid subsequence.
ConsecutiveValid(t, j, k) ==
  /\ j < k
  /\ t[j].is_valid /\ t[k].is_valid
  /\ \A x \in (j + 1)..(k - 1) : ~t[x].is_valid

\* Rows j and k have both averages and both relative times defined,
\* elapsed > 0, and |change in avg_pupildiameter| / elapsed > max_speed.
FasterThan(t, j, k, max_speed) ==
  /\ ~IsNaN(t[j].avg_pupildiameter) /\ ~IsNaN(t[k].avg_pupildiameter)
  /\ ~IsNaN(t[j].relative_timestamp) /\ ~IsNaN(t[k].relative_timestamp)
  /\ LET elapsed == t[k].relative_timestamp - t[j].relative_timestamp
          change  == t[k].avg_pupildiameter - t[j].avg_pupildiameter
      IN  /\ elapsed > 0
          /\ (IF change < 0 THEN 0 - change ELSE change) > max_speed * elapsed

\* The ids of the endpoints of the too-fast consecutive valid pairs of t.
SpeedHits(t, max_speed) ==
  { t[x].id : x \in { y \in 1..Len(t) :
      \E j, k \in 1..Len(t) :
        /\ y \in {j, k}
        /\ ConsecutiveValid(t, j, k)
        /\ FasterThan(t, j, k, max_speed) } }

SpeedApplies ==
  /\ Constructed
  /\ rev = "checkpoint"
  /\ {"avg_pupildiameter", "relative_timestamp"} \subseteq columns

\* C14.  Speed filter: on every constructed table, filter_pupil_speed (with
\* the recompute of set_data) leaves valid exactly the rows that were valid
\* when it started and are not an endpoint of a consecutive pair of the valid
\* subsequence with elapsed relative time > 0 and |change in
\* avg_pupildiameter| / elapsed > max_speed; a pair with elapsed time <= 0
\* invalidates nothing, and no other row's validity changes.
C14_SpeedFilterPairs ==
  SpeedApplies =>
    \A max_speed \in MaxSpeeds :
      \A t1 \in pass_outcomes(rev, [name |-> "filter_pupil_speed",
                                     max_speed |-> max_speed], data, columns) :
        /\ ValidIds(t1) = ValidIds(data) \ SpeedHits(data, max_speed)
        /\ Ids(t1) = Ids(data)

\* A table with an invalid row between two valid rows, which the speed
\* filter takes as a consecutive pair and invalidates together.
C14_Witness ==
  /\ SpeedApplies
  /\ \E max_speed \in MaxSpeeds :
        \E j, k \in 1..Len(data) :
          /\ k > j + 1
          /\ ConsecutiveValid(data, j, k)
          /\ FasterThan(data, j, k, max_speed)
          /\ \A t1 \in pass_outcomes(rev, [name |-> "filter_pupil_speed",
                                           max_speed |-> max_speed], data, columns) :
                {data[j].id, data[k].id} \cap ValidIds(t1) = {}

\* Both eyes' change from row j - 1 to row j is below tolerance.
SmallStep(t, j, tolerance) ==
  /\ j > 1
  /\ ~IsNaN(t[j].eyeleft) /\ ~IsNaN(t[j - 1].eyeleft)
  /\ ~IsNaN(t[j].eyeright) /\ ~IsNaN(t[j - 1].eyeright)
  /\ t[j].eyeleft - t[j - 1].eyeleft < tolerance
  /\ t[j - 1].eyeleft - t[j].eyeleft < tolerance
  /\ t[j].eyeright - t[j - 1].eyeright < tolerance
  /\ t[j - 1].eyeright - t[j].eyeright < tolerance

\* Row i is part of a run of at least steps consecutive rows, from one row
\* of the run to the next both eyes changing by less than tolerance.
InStaticRun(t, i, steps, tolerance) ==
  \E a \in 1..i, b \in i..Len(t) :
    /\ b - a + 1 >= steps
    /\ \A j \in (a + 1)..b : SmallStep(t, j, tolerance)

StaticRunIds(t, steps, tolerance) ==
  { t[i].id : i \in { j \in 1..Len(t) : InStaticRun(t, j, steps, tolerance) } }

\* C15.  Constant-pupil filter: for max_static_steps >= 2,
\* filter_constant_pupil invalidates exactly the rows that are part of a run
\* of at least max_static_steps consecutive rows over which both eyes'
\* step-to-step change stays below tolerance (a reading repeated over
\* max_static_steps consecutive rows is invalidated on all of them), and
\* every other row keeps its validity.
C15_ConstantRunsInvalidated ==
  Constructed =>
    \A max_static_steps \in { m \in MaxStaticSteps : m >= 2 }, tolerance \in Tolerances :
      \A t1 \in pass_outcomes(rev, [name |-> "filter_constant_pupil",
                                     max_static_steps |-> max_static_steps,
                                     tolerance |-> tolerance], data, columns) :
        ValidIds(t1) = ValidIds(data) \ StaticRunIds(data, max_static_steps, tolerance)

\* The valid rows of t within +-time_window of row i, row i included.
OutlierWindow(t, i, time_window) ==
  { j \in 1..Len(t) :
      /\ t[j].is_valid
      /\ t[j].relative_timestamp >= t[i].relative_timestamp - time_window
      /\ t[j].relative_timestamp <= t[i].relative_timestamp + time_window }

\* Sum of f over the finite set P of positions.
RECURSIVE SumOver(_, _)
SumOver(P, f) ==
  IF P = {} THEN 0
  ELSE LET x == CHOOSE y \in P : TRUE IN f[x] + SumOver(P \ {x}, f)

\* The std of row i is not inside [mean - sigma_threshold * std,
\* mean + sigma_threshold * std], mean and (population) std taken over the
\* defined std values of the rows of W: an undefined std is not inside, and
\* a defined x is outside iff (k*x - S)^2 > sigma_threshold^2 * (k*Q - S^2).
OutsideBand(t, i, W, sigma_threshold) ==
  LET D == { j \in W : ~IsNaN(t[j].std_pupildiameter) }
      k == Cardinality(D)
      v == [j \in 1..Len(t) |-> t[j].std_pupildiameter]
      S == SumOver(D, v)
      Q == SumOver(D, [j \in 1..Len(t) |-> v[j] * v[j]])
      x == v[i]
  IN  \/ IsNaN(x)
      \/ (k * x - S) * (k * x - S) > sigma_threshold * sigma_threshold * (k * Q - S * S)

StdOutlierIds(t, time_window, sigma_threshold) ==
  { t[i].id : i \in { j \in 1..Len(t) :
      /\ t[j].is_valid
      /\ Cardinality(OutlierWindow(t, j, time_window)) >= 2
      /\ OutsideBand(t, j, OutlierWindow(t, j, time_window), sigma_threshold) } }

StdOutliersApplies ==
  /\ Constructed
  /\ rev = "checkpoint"
  /\ "std_pupildiameter" \in columns

\* C16.  Std-outlier filter: filter_by_std_outliers invalidates a valid row
\* if and only if at least 2 valid rows, the row itself counted, lie within
\* +-time_window of it and the row's std_pupildiameter is not inside mean +-
\* sigma_threshold * std of the std values of those rows; a row with fewer
\* than 2 rows in its window stays valid.
C16_StdOutlierIff ==
  StdOutliersApplies =>
    \A time_window \in TimeWindows, sigma_threshold \in SigmaThresholds :
      \A t1 \in pass_outcomes(rev, [name |-> "filter_by_std_outliers",
                                     time_window |-> time_window,
                                     sigma_threshold |-> sigma_threshold],
                               data, columns) :
        /\ ValidIds(t1) = ValidIds(data) \ StdOutlierIds(data, time_window, sigma_threshold)
        /\ \A i \in 1..Len(data) :
              (data[i].is_valid /\ Cardinality(OutlierWindow(data, i, time_window)) < 2)
                => data[i].id \in ValidIds(t1)

\* A table on which one call of the std-outlier filter invalidates a row
\* whose defined std is outside the band of its window and keeps a row of
\* the same window whose std is inside.
C16_Witness ==
  /\ StdOutliersApplies
  /\ \E time_window \in TimeWindows, sigma_threshold \in SigmaThresholds :
        \A t1 \in pass_outcomes(rev, [name |-> "filter_by_std_outliers",
                                       time_window |-> time_window,
                                       sigma_threshold |-> sigma_threshold],
                                 data, columns) :
          \E i, j \in 1..Len(data) :
            /\ data[i].is_valid
            /\ ~IsNaN(data[i].std_pupildiameter)
            /\ data[i].id \notin ValidIds(t1)
            /\ j \in OutlierWindow(data, i, time_window)
            /\ data[j].id \in ValidIds(t1)

\* The peak row of the window of phase key (the first row of the largest
\* avg_pupildiameter_smooth) is also its latest valid row.
PeakIsLatestRow(df, time_ranges, key) ==
  LET seg == segment(df, time_ranges[key][1], time_ranges[key][2])
  IN  /\ seg # <<>>
      /\ \A k \in 1..Len(seg) :
            df[seg[k]].relative_timestamp
              <= df[idxmax(df, seg, "avg_pupildiameter_smooth")].relative_timestamp

\* The quotient was taken over a zero denominator: numpy gives inf or nan.
ZeroDenominator(out) == out.kind \in {"inf", "nan"}

FallCalls ==
  { <<"compute_positive_fall_speed", "Positive">>,
    <<"compute_negative_fall_speed", "Negative">> }

\* C17 as stated.  Fall speed edge case: in a fall-speed call whose peak
\* row is also the latest valid row of the phase window, the denominator of
\* the quotient is 0.
C17_PeakLastRowZeroDenominator ==
  [][ \A time_ranges \in LoadedRanges : \A c \in FallCalls :
        (/\ Called(c[1])
         /\ c[2] \in DOMAIN time_ranges
         /\ PeakIsLatestRow(data, time_ranges, c[2]))
          => ZeroDenominator(result'.out) ]_vars

\* C17, amended.  In a fall-speed call on a window with a valid row, the
\* denominator is 0 exactly when the peak row's relative_timestamp equals
\* the phase end; when the peak row is the latest valid row of the window
\* and lies before the phase end, the denominator is positive and the
\* result is 0.
C17_ZeroDenominatorAtPhaseEnd ==
  [][ \A time_ranges \in LoadedRanges : \A c \in FallCalls :
        (/\ Called(c[1])
         /\ c[2] \in DOMAIN time_ranges
         /\ RowInWindow(data, time_ranges, c[2]))
          => /\ ZeroDenominator(result'.out) <=> PeakAtPhaseEnd(data, time_ranges, c[2])
             /\ (/\ PeakIsLatestRow(data, time_ranges, c[2])
                 /\ ~PeakAtPhaseEnd(data, time_ranges, c[2]))
                  => result'.out = Quotient(0, 1) ]_vars

\* compute_positive_fall_speed has returned 0 for a window whose peak row
\* is its latest valid row and lies before the phase end, in a table of at
\* least two valid rows.
C17_Witness ==
  /\ result.call = "compute_positive_fall_speed"
  /\ result.out = Quotient(0, 1)
  /\ Cardinality(ValidIds(data)) >= 2
  /\ \E time_ranges \in LoadedRanges :
        /\ PeakIsLatestRow(data, time_ranges, "Positive")
        /\ ~PeakAtPhaseEnd(data, time_ranges, "Positive")

\* Row i is valid and at least 2 valid rows, itself counted, lie within
\* +-time_window of it.
HasWindowNeighbour(t, i, time_window) ==
  /\ t[i].is_valid
  /\ Cardinality(OutlierWindow(t, i, time_window)) >= 2

\* C18.  The std-outlier pass invalidates every valid row whose
\* std_pupildiameter is NaN and that has at least 2 valid rows within
\* +-time_window; run as the first pass after construction it invalidates
\* every valid row that has another valid row within +-time_window.
C18_UndefinedStdInvalidated ==
  StdOutliersApplies =>
    \A time_window \in TimeWindows, sigma_threshold \in SigmaThresholds :
      \A t1 \in pass_outcomes(rev, [name |-> "filter_by_std_outliers",
                                     time_window |-> time_window,
                                     sigma_threshold |-> sigma_threshold],
                               data, columns) :
        \A i \in 1..Len(data) :
          /\ (/\ HasWindowNeighbour(data, i, time_window)
              /\ IsNaN(data[i].std_pupildiameter)) => data[i].id \notin ValidIds(t1)
          /\ (/\ pc = "constructed"
              /\ HasWindowNeighbour(data, i, time_window)) => data[i].id \notin ValidIds(t1)

\* After a pass, a table in which a valid row with NaN std has a valid row
\* within +-time_window whose std is defined; the std-outlier pass
\* invalidates the first.
C18_Witness ==
  /\ StdOutliersApplies
  /\ pc = "filtered"
  /\ \E time_window \in TimeWindows, sigma_threshold \in SigmaThresholds :
        \E i, j \in 1..Len(data) :
          /\ data[i].is_valid
          /\ IsNaN(data[i].std_pupildiameter)
          /\ j \in OutlierWindow(data, i, time_window)
          /\ ~IsNaN(data[j].std_pupildiameter)
          /\ \A t1 \in pass_outcomes(rev, [name |-> "filter_by_std_outliers",
                                           time_window |-> time_window,
                                           sigma_threshold |-> sigma_threshold],
                                     data, columns) :
                data[i].id \notin ValidIds(t1)

\* The columns of a row that come from the raw record.
RawFields(r) == <<r.timestamp, r.type, r.eyeleft, r.eyeright>>

\* C19.  Frame condition: no step (construction or any pass, set_data
\* included) changes the caller's raw table, and after every step of a
\* constructed FilteredData its table has exactly the rows of the raw
\* table, each with the raw timestamp, type and left/right diameter; only
\* is_valid and the calculated columns differ.
C19_RawTableAndRowsKept ==
  [][ /\ raw' = raw
      /\ pc' # "new" =>
            /\ Len(data') = Len(raw.rows)
            /\ Ids(data') = Ids(raw.rows)
            /\ \A id \in Ids(raw.rows) :
                  RawFields(RowOf(data', id)) = RawFields(RowOf(raw.rows, id)) ]_vars

\* After a pass, a table that has an invalid row the raw table holds as
\* valid, and a valid row whose relative_timestamp has been computed.
C19_Witness ==
  /\ pc = "filtered"
  /\ \E i \in 1..Len(data) :
        /\ ~data[i].is_valid
        /\ RowOf(raw.rows, data[i].id).is_valid
  /\ \E i \in 1..Len(data) :
        /\ data[i].is_valid
        /\ ~IsNaN(data[i].relative_timestamp)
        /\ data[i].relative_timestamp # data[i].timestamp

====
